---- MODULE Spec2Model ----
(***************************************************************************)
(* Model of applitools/_match_window_task.py: MatchWindowTask, the         *)
(* match-retry engine.  Times are integers in milliseconds; the code works *)
(* in seconds (value / 1000.0), a monotone rescaling of the same numbers.  *)
(* A checkpoint call is followed through its blocking steps: the sleeps,   *)
(* prepare_action (the capture), and the synchronous comparator call,      *)
(* split into the moment it is sent and the moment its response arrives.   *)
(***************************************************************************)
EXTENDS Integers, Sequences, FiniteSets, TLC

\* ------------------------------------------------------------------ bounds
\* explicit timeouts offered to a call go up to 250 * MaxTimeoutSteps ms
MaxTimeoutSteps == 4
\* a capture or a comparator round-trip lasts up to 250 * MaxDelay ms
MaxDelay == 2

\* --------------------------------------------------------------- constants
\* MatchWindowTask.MINIMUM_MATCH_TIMEOUT, milliseconds
MINIMUM_MATCH_TIMEOUT == 60
\* MatchWindowTask._MATCH_INTERVAL, 0.5 s, in milliseconds
MATCH_INTERVAL == 500

Kinds == {"window", "region", "element"}

\* retry_timeout values a caller passes (ms): unset, zero, below the floor,
\* the floor, and multiples of 250 ms
Timeouts == {-1, 0, 1, 59, 60} \cup {250 * k : k \in 1..MaxTimeoutSteps}

\* default_retry_timeout values given to the constructor (ms)
Defaults == {0, 30, 2000}

\* durations of one capture / one comparator round-trip (ms)
Delays == {250 * k : k \in 0..MaxDelay}

Responses == {"true", "false", "error"}

NoResult == [as_expected |-> "none", screenshot |-> 0]

VARIABLES
    default_retry_timeout, \* self._default_retry_timeout (ms)
    pc,            \* position of the call: idle, once_sleep, poll_sleep,
                   \* prepare, submit, await, done, rejected, failed
    phase,         \* which attempt: none, once, first, poll, last
    kind,          \* match_window / match_region / match_element
    run_once,      \* run_once_after_wait
    explicit,      \* the retry_timeout argument (ms)
    retry_timeout, \* the effective timeout (ms)
    now,           \* time.time(), ms since the call began
    start,         \* _run_with_intervals: start
    retry,         \* _run_with_intervals: retry (-1 before it is measured)
    screenshot,    \* self._screenshot: index of the capture it holds, 0 = None
    data,          \* the request built by prepare_action
    captures,      \* captures taken in this call
    pollSleeps,    \* time.sleep(_MATCH_INTERVAL) executed in this call
    onceSleeps,    \* time.sleep(retry_timeout) executed in this call
    subs,          \* submissions of this call, in order, with their responses
    result,        \* the MatchResult returned
    err            \* the exception that ended the call: none, config,
                   \* type_error, transport

vars == <<default_retry_timeout, pc, phase, kind, run_once, explicit,
          retry_timeout, now, start, retry, screenshot, data, captures,
          pollSleeps, onceSleeps, subs, result, err>>

callVars == <<kind, run_once, explicit, retry_timeout>>

Terminal == {"done", "rejected", "failed"}

\* ----------------------------------------------------------- pure helpers

\* variant: the lower end of the rejected range off by one
BelowMinimum_OffByOne(rt) == 1 < rt /\ rt < MINIMUM_MATCH_TIMEOUT

\* _run line 228: 0 < retry_timeout < MINIMUM_MATCH_TIMEOUT
BelowMinimum(rt) == 0 < rt /\ rt < MINIMUM_MATCH_TIMEOUT

\* variant: a negative timeout stands for "no waiting"
EffectiveTimeout_ZeroDefault(rt, dflt) == IF rt < 0 THEN 0 ELSE rt

\* _run lines 230-233: a negative timeout selects the default
EffectiveTimeout(rt, dflt) == IF rt < 0 THEN dflt ELSE rt

\* variant: run_once_after_wait is not consulted
SingleShot_ZeroOnly(once, t) == t = 0

\* _run line 236: run_once_after_wait or retry_timeout == 0
SingleShot(once, t) == once \/ t = 0

\* variant: the loop is given one more interval
LoopContinues_Grace(r, t) == r < t + MATCH_INTERVAL

\* variant: the loop goes on while retry <= retry_timeout
LoopContinues_Inclusive(r, t) == r <= t

\* _run_with_intervals line 211: while retry < retry_timeout
LoopContinues(r, t) == r < t

\* lines 202 and 214 pass ignore_mismatch=True by keyword; lines 222 and 240
\* call prepare_action() with no argument
PassesKeyword(ph) == ph \in {"first", "poll"}

\* match_region binds stitch_content (False) as the 8th positional argument
\* of _prepare_match_data_for_region, which is its ignore_mismatch
\* parameter; the keyword of lines 202/214 then collides with it: TypeError
KeywordCollides(k, ph) == k = "region" /\ PassesKeyword(ph)

\* variant: the attempt after the loop is marked soft as well
IgnoreMismatch_AlwaysSoft(k, ph) == TRUE

\* variant: the attempts made inside the loop are not marked soft
IgnoreMismatch_FirstOnly(k, ph) == ph = "first"

\* the ignore_mismatch value the request is built with
IgnoreMismatch(k, ph) == PassesKeyword(ph)

\* ------------------------------------------------------------------- Init
Init ==
    /\ default_retry_timeout \in Defaults
    /\ pc = "idle"
    /\ phase = "none"
    /\ kind = "window"
    /\ run_once = FALSE
    /\ explicit = -1
    /\ retry_timeout = 0
    /\ now = 0
    /\ start = 0
    /\ retry = -1
    /\ screenshot = 0
    /\ data = [soft |-> FALSE, shot |-> 0]
    /\ captures = 0
    /\ pollSleeps = 0
    /\ onceSleeps = 0
    /\ subs = <<>>
    /\ result = NoResult
    /\ err = "none"

\* ---------------------------------------------------------------- actions

\* match_window / match_region / match_element -> _run, up to its first
\* blocking operation (lines 226-236, 244, 199)
Call(k, rt, once) ==
    /\ pc \in Terminal \cup {"idle"}
    /\ kind' = k
    /\ run_once' = once
    /\ explicit' = rt
    /\ now' = 0
    /\ start' = 0
    /\ retry' = -1
    /\ data' = [soft |-> FALSE, shot |-> 0]
    /\ captures' = 0
    /\ pollSleeps' = 0
    /\ onceSleeps' = 0
    /\ subs' = <<>>
    /\ result' = NoResult
    /\ IF BelowMinimum(rt)
       THEN /\ pc' = "rejected"
            /\ err' = "config"
            /\ phase' = "none"
            /\ retry_timeout' = rt
       ELSE /\ err' = "none"
            /\ retry_timeout' = EffectiveTimeout(rt, default_retry_timeout)
            /\ IF SingleShot(once, retry_timeout')
               THEN pc' = "once_sleep" /\ phase' = "once"
               ELSE pc' = "prepare" /\ phase' = "first"
    /\ UNCHANGED <<default_retry_timeout, screenshot>>

\* variant: the single attempt is made without the sleep before it
OnceSleep_ZeroLength ==
    /\ pc = "once_sleep"
    /\ now' = now
    /\ onceSleeps' = onceSleeps + 1
    /\ pc' = "prepare"
    /\ UNCHANGED <<default_retry_timeout, phase, callVars, start, retry,
                   screenshot, data, captures, pollSleeps, subs, result, err>>

\* _run line 239: time.sleep(retry_timeout)
OnceSleep ==
    /\ pc = "once_sleep"
    /\ now' = now + retry_timeout
    /\ onceSleeps' = onceSleeps + 1
    /\ pc' = "prepare"
    /\ UNCHANGED <<default_retry_timeout, phase, callVars, start, retry,
                   screenshot, data, captures, pollSleeps, subs, result, err>>

\* variant: the poll interval is half of _MATCH_INTERVAL
PollSleep_Short ==
    /\ pc = "poll_sleep"
    /\ now' = now + (MATCH_INTERVAL \div 2)
    /\ pollSleeps' = pollSleeps + 1
    /\ pc' = "prepare"
    /\ UNCHANGED <<default_retry_timeout, phase, callVars, start, retry,
                   screenshot, data, captures, onceSleeps, subs, result, err>>

\* _run_with_intervals line 213: time.sleep(self._MATCH_INTERVAL)
PollSleep ==
    /\ pc = "poll_sleep"
    /\ now' = now + MATCH_INTERVAL
    /\ pollSleeps' = pollSleeps + 1
    /\ pc' = "prepare"
    /\ UNCHANGED <<default_retry_timeout, phase, callVars, start, retry,
                   screenshot, data, captures, onceSleeps, subs, result, err>>

\* variant: the timer is started before the first capture
Prepare_TimerBeforeCapture(d) ==
    /\ pc = "prepare"
    /\ IF KeywordCollides(kind, phase)
       THEN /\ pc' = "failed"
            /\ err' = "type_error"
            /\ UNCHANGED <<now, start, screenshot, data, captures>>
       ELSE /\ captures' = captures + 1
            /\ screenshot' = captures'
            /\ now' = now + d
            /\ data' = [soft |-> IgnoreMismatch(kind, phase), shot |-> screenshot']
            /\ start' = IF phase = "first" THEN now ELSE start
            /\ pc' = "submit"
            /\ err' = err
    /\ UNCHANGED <<default_retry_timeout, phase, callVars, retry,
                   pollSleeps, onceSleeps, subs, result>>

\* prepare_action(...), lines 202, 214, 222, 240: one capture lasting d ms,
\* kept in self._screenshot, and the request built from it; line 204 starts
\* the timer right after the first one
Prepare(d) ==
    /\ pc = "prepare"
    /\ IF KeywordCollides(kind, phase)
       THEN /\ pc' = "failed"
            /\ err' = "type_error"
            /\ UNCHANGED <<now, start, screenshot, data, captures>>
       ELSE /\ captures' = captures + 1
            /\ screenshot' = captures'
            /\ now' = now + d
            /\ data' = [soft |-> IgnoreMismatch(kind, phase), shot |-> screenshot']
            /\ start' = IF phase = "first" THEN now' ELSE start
            /\ pc' = "submit"
            /\ err' = err
    /\ UNCHANGED <<default_retry_timeout, phase, callVars, retry,
                   pollSleeps, onceSleeps, subs, result>>

\* variant: the request is sent without waiting for its response
Submit_Async ==
    /\ pc = "submit"
    /\ subs' = Append(subs, [soft |-> data.soft, shot |-> data.shot,
                             resp |-> "pending"])
    /\ pc' = IF phase \in {"once", "last"} THEN "await" ELSE "prepare"
    /\ UNCHANGED <<default_retry_timeout, phase, callVars, now, start, retry,
                   screenshot, data, captures, pollSleeps, onceSleeps,
                   result, err>>

\* self._agent_connector.match_window(self._running_session, data): the
\* request leaves; the caller blocks until the response (lines 206, 215,
\* 223, 241)
Submit ==
    /\ pc = "submit"
    /\ subs' = Append(subs, [soft |-> data.soft, shot |-> data.shot,
                             resp |-> "pending"])
    /\ pc' = "await"
    /\ UNCHANGED <<default_retry_timeout, phase, callVars, now, start, retry,
                   screenshot, data, captures, pollSleeps, onceSleeps,
                   result, err>>

\* variant: the result carries the first capture of the checkpoint
MatchResult_FirstCapture(as_expected) ==
    [as_expected |-> as_expected, screenshot |-> 1]

\* the MatchResult of lines 208, 217, 224, 242
MatchResult(as_expected) ==
    [as_expected |-> as_expected, screenshot |-> screenshot]

\* variant: a failed comparator call is taken for "no match"
Raises_Swallowed(r) == FALSE

\* an exception raised by match_window is caught nowhere in _run or
\* _run_with_intervals (lines 206, 215, 223, 241 are outside any try)
Raises(r) == r = "error"

\* variant: a match found inside the loop does not end the checkpoint
Returns_FirstOnly(ph, r) == ph \in {"once", "last"} \/ (r = "true" /\ ph = "first")

\* variant: the first attempt's answer is not inspected
Returns_NoFastPath(ph, r) == ph \in {"once", "last"} \/ (r = "true" /\ ph = "poll")

\* lines 207 and 216 return on a match; lines 224 and 242 return whatever
\* the answer is
Returns(ph, r) == ph \in {"once", "last"} \/ r = "true"

\* variant: leaving the loop counts as success
AsExpected_ExitIsSuccess(ph, r) == IF ph = "once" THEN r ELSE "true"

\* lines 208 and 217 return True; lines 224 and 242 return as_expected
AsExpected(ph, r) == IF ph \in {"once", "last"} THEN r ELSE "true"

\* variant: the loop sleeps once more before the attempt that follows it
Outcome_SleepBeforeLast(r, t) ==
    IF Raises(r)
    THEN /\ pc' = "failed"
         /\ err' = "transport"
         /\ UNCHANGED <<phase, retry, result>>
    ELSE IF Returns(phase, r)
    THEN /\ pc' = "done"
         /\ result' = MatchResult(AsExpected(phase, r))
         /\ UNCHANGED <<phase, retry, err>>
    ELSE /\ retry' = t - start
         /\ pc' = "poll_sleep"
         /\ phase' = IF LoopContinues(retry', retry_timeout) THEN "poll" ELSE "last"
         /\ UNCHANGED <<result, err>>

\* what the code does with the comparator's answer r at time t:
\* lines 207-211 (first), 216-219 and 211 (poll), 224 (last), 242 (once)
Outcome(r, t) ==
    IF Raises(r)
    THEN /\ pc' = "failed"
         /\ err' = "transport"
         /\ UNCHANGED <<phase, retry, result>>
    ELSE IF Returns(phase, r)
    THEN /\ pc' = "done"
         /\ result' = MatchResult(AsExpected(phase, r))
         /\ UNCHANGED <<phase, retry, err>>
    ELSE /\ retry' = t - start
         /\ IF LoopContinues(retry', retry_timeout)
            THEN pc' = "poll_sleep" /\ phase' = "poll"
            ELSE pc' = "prepare" /\ phase' = "last"
         /\ UNCHANGED <<result, err>>

\* the comparator answers r after a round-trip of d ms
Respond(r, d) ==
    /\ pc = "await"
    /\ now' = now + d
    /\ subs' = [subs EXCEPT ![Len(subs)].resp = r]
    /\ Outcome(r, now')
    /\ UNCHANGED <<default_retry_timeout, callVars, start, screenshot, data,
                   captures, pollSleeps, onceSleeps>>

\* ------------------------------------------- state of the other components
\* _get_dynamic_regions, _create_match_data_bytes and FrameChain are
\* followed in specifications of their own; while a checkpoint call is
\* followed they stay as they are.
VARIABLES
    r_pc,       \* _get_dynamic_regions: off, called, returned
    r_target,   \* its target argument (present = FALSE for None)
    r_regions   \* the dict it returns

rvars == <<r_pc, r_target, r_regions>>

NoTarget == [present |-> FALSE, ignore_regions |-> <<>>, floating_regions |-> <<>>]

NoRegions == [ignore |-> <<>>, floating |-> <<>>]

RIdle == r_pc = "off" /\ r_target = NoTarget /\ r_regions = NoRegions

VARIABLES
    w_pc,       \* _create_match_data_bytes: off, called, framed
    w_json,     \* match_data_json_bytes, a sequence of bytes
    w_image,    \* screenshot.get_bytes(), a sequence of bytes
    w_body      \* the body it returns

wvars == <<w_pc, w_json, w_image, w_body>>

WIdle == w_pc = "off" /\ w_json = <<>> /\ w_image = <<>> /\ w_body = <<>>

\* ---- frames.py
\* frame objects live in a heap, so that two chains can hold the same
\* Frame and a deep copy can hold another one with the same field values
MaxObjs == 4

ObjIds == 1..MaxObjs

ChainNames == {"live", "other"}

\* a heap cell no Frame occupies
FreeFrame ==
    [alloc |-> FALSE, reference |-> "", location |-> <<0, 0>>,
     outer_size |-> <<0, 0>>, inner_size |-> <<0, 0>>,
     original_location |-> <<0, 0>>]

\* what an operation on a chain gave back: its value or its exception
NoRet ==
    [op |-> "none", on |-> "live", exc |-> "none", point |-> <<0, 0>>,
     frame |-> 0, flag |-> FALSE]

VARIABLES
    f_heap,     \* the Frame objects, by identity
    f_chains,   \* FrameChain._frames of the live chain and of another chain
    f_ret       \* outcome of the last FrameChain operation

fvars == <<f_heap, f_chains, f_ret>>

\* two chains just constructed: FrameChain()
FIdle ==
    /\ f_heap = [i \in ObjIds |-> FreeFrame]
    /\ f_chains = [c \in ChainNames |-> <<>>]
    /\ f_ret = NoRet

\* ---- one prepare_action: title, capture, crop, regions, framing
\* _get_screenshot arguments of an attempt nobody has asked for yet
NoArgs ==
    [kind |-> "window", force_full_page_screenshot |-> FALSE,
     wait_before_screenshots |-> 0, stitch_content |-> FALSE]

\* self._screenshot before the first capture
NoShot == [source |-> "none", cropped |-> "none"]

VARIABLES
    c_pc,       \* prepare_action: off, called, titled, shot, resolved, built
    c_args,     \* which checkpoint it is for, with its capture arguments
    c_trace,    \* what it has asked of the driver and of the clock, in order
    c_shot      \* self._screenshot: where it comes from and how it was cropped

cvars == <<c_pc, c_args, c_trace, c_shot>>

CIdle == c_pc = "off" /\ c_args = NoArgs /\ c_trace = <<>> /\ c_shot = NoShot

auxVars == <<rvars, wvars, fvars, cvars>>

AuxIdle == RIdle /\ WIdle /\ FIdle /\ CIdle

\* no checkpoint call is being followed
MatchIdle == Init /\ default_retry_timeout = 0

Next ==
    \/ \E k \in Kinds, rt \in Timeouts, once \in BOOLEAN :
          Call(k, rt, once) /\ UNCHANGED auxVars
    \/ OnceSleep /\ UNCHANGED auxVars
    \/ PollSleep /\ UNCHANGED auxVars
    \/ \E d \in Delays : Prepare(d) /\ UNCHANGED auxVars
    \/ Submit /\ UNCHANGED auxVars
    \/ \E r \in Responses, d \in Delays : Respond(r, d) /\ UNCHANGED auxVars

\* a task just constructed, the other components untouched
MatchInit == Init /\ AuxIdle

Spec == MatchInit /\ [][Next]_<<vars, auxVars>>

\* the blocking steps of a checkpoint under way: a sleep, a capture, a
\* comparator call and its answer
Progress ==
    \/ OnceSleep
    \/ PollSleep
    \/ \E d \in Delays : Prepare(d)
    \/ Submit
    \/ \E r \in Responses, d \in Delays : Respond(r, d)

\* every sleep ends, every capture and every comparator call returns
SpecLive == MatchInit /\ [][Next]_<<vars, auxVars>> /\ WF_vars(Progress)

TypeOK ==
    /\ pc \in {"idle", "once_sleep", "poll_sleep", "prepare", "submit",
               "await", "done", "rejected", "failed"}
    /\ phase \in {"none", "once", "first", "poll", "last"}
    /\ captures \in Nat
    /\ retry >= -1

\* ================================================================ claims
\* the call passed validation and runs _run_with_intervals
RetryMode == pc \notin {"idle", "rejected"} /\ ~run_once /\ retry_timeout # 0

\* the call passed validation and runs the single attempt of lines 237-242
SingleShotMode == pc \notin {"idle", "rejected"} /\ (run_once \/ retry_timeout = 0)

Last(q) == q[Len(q)]

Hard(q) == {i \in 1..Len(q) : ~q[i].soft}

Pending(q) == {i \in 1..Len(q) : q[i].resp = "pending"}

\* C1: a call of any kind, run_once or not, whose explicit retry_timeout is
\* strictly between 0 and 60 ms ends with the configuration error, and no
\* capture, no sleep and no submission has been made for it.
C1_RejectedBeforeAnything ==
    (pc # "idle" /\ 0 < explicit /\ explicit < 60) =>
        /\ pc = "rejected"
        /\ err = "config"
        /\ captures = 0
        /\ pollSleeps = 0
        /\ onceSleeps = 0
        /\ subs = <<>>
        /\ result = NoResult

C1_Witness ==
    pc = "rejected" /\ explicit = 1 /\ run_once /\ kind = "region"

\* C2: with effective timeout 0 or run_once true, the checkpoint never
\* enters the polling loop, never takes more than one capture or makes more
\* than one submission, and at its end has made exactly one of each,
\* whatever the comparator answered.
C2_SingleShotOnce ==
    SingleShotMode =>
        /\ phase = "once"
        /\ pc # "poll_sleep"
        /\ pollSleeps = 0
        /\ captures <= 1
        /\ Len(subs) <= 1
        /\ pc \in Terminal => (captures = 1 /\ Len(subs) = 1)

C2_Witness ==
    /\ pc = "done"
    /\ run_once
    /\ retry_timeout > 0
    /\ result.as_expected = "false"
    /\ captures = 1
    /\ Len(subs) = 1

\* C3: in retry mode, when the first attempt is answered true the
\* checkpoint is over at once with as_expected = true: no poll sleep was
\* taken and there is one capture and one submission only.
C3_FastPath ==
    (RetryMode /\ Len(subs) >= 1 /\ subs[1].resp = "true") =>
        /\ pc = "done"
        /\ result.as_expected = "true"
        /\ result.screenshot = subs[1].shot
        /\ pollSleeps = 0
        /\ captures = 1
        /\ Len(subs) = 1

C3_Witness ==
    RetryMode /\ pc = "done" /\ Len(subs) = 1 /\ subs[1].resp = "true"

\* C4 as stated: in retry mode, whenever the first attempt did not match,
\* a checkpoint that returns has made exactly one hard attempt, as its last
\* submission, and returns the answer to it, whatever the polling attempts
\* were answered.
C4_Original ==
    (RetryMode /\ pc = "done" /\ subs[1].resp = "false") =>
        /\ Cardinality(Hard(subs)) = 1
        /\ ~Last(subs).soft
        /\ result.as_expected = Last(subs).resp

\* C4 amended: in retry mode, whenever the first attempt did not match and
\* no polling attempt matched, a checkpoint that returns has made exactly
\* one hard attempt, as its last submission, and returns the answer to it;
\* a polling attempt that matches ends the checkpoint with as_expected =
\* true and without any hard attempt.
C4_FinalHardAttempt ==
    (RetryMode /\ pc = "done" /\ subs[1].resp = "false") =>
        IF \E i \in 1..Len(subs) : subs[i].soft /\ subs[i].resp = "true"
        THEN /\ Hard(subs) = {}
             /\ Last(subs).resp = "true"
             /\ result.as_expected = "true"
        ELSE /\ Hard(subs) = {Len(subs)}
             /\ Len(subs) >= 2
             /\ phase = "last"
             /\ result.as_expected = Last(subs).resp

C4_Witness ==
    /\ RetryMode
    /\ pc = "done"
    /\ Len(subs) >= 3
    /\ \A i \in 1..(Len(subs) - 1) : subs[i].soft /\ subs[i].resp = "false"
    /\ ~Last(subs).soft
    /\ result.as_expected = "true"

CeilDiv(a, b) == (a + b - 1) \div b

AllFalse(q) == \A i \in 1..Len(q) : q[i].resp \in {"false", "pending"}

C6_LastAnswerDecides ==
    pc = "done" =>
        /\ Len(subs) >= 1
        /\ Last(subs).resp \in {"true", "false"}
        /\ result.as_expected = Last(subs).resp
        /\ Pending(subs) = {}

C6_Witness ==
    /\ RetryMode
    /\ pc = "done"
    /\ phase = "last"
    /\ retry >= retry_timeout
    /\ result.as_expected = "false"

\* C7: in retry mode the first attempt and every polling attempt are soft;
\* a submission with ignore_mismatch = false is made only after the loop,
\* and in every checkpoint there is at most one hard submission and it is
\* the last one.
C7_SoftUntilLast ==
    /\ Hard(subs) \subseteq {Len(subs)}
    /\ RetryMode =>
        /\ Len(subs) >= 1 => subs[1].soft
        /\ phase \in {"first", "poll"} =>
            /\ Hard(subs) = {}
            /\ pc \in {"submit", "await"} => data.soft
        /\ Hard(subs) # {} =>
            /\ phase = "last"
            /\ pc \in {"await", "done", "failed"}
            /\ Len(subs) >= 2

C7_Witness ==
    /\ RetryMode
    /\ pc = "await"
    /\ Len(subs) >= 3
    /\ \A i \in 1..(Len(subs) - 1) : subs[i].soft
    /\ ~Last(subs).soft

Failed(q) == {i \in 1..Len(q) : q[i].resp = "error"}

\* C8: a comparator call that fails, on whichever attempt, ends the
\* checkpoint with that error: the failed submission is the last one, no
\* MatchResult is returned, and from then on the checkpoint makes no
\* capture, no sleep and no submission.
C8_TransportErrorEnds ==
    /\ [](Failed(subs) # {} =>
            /\ pc = "failed"
            /\ err = "transport"
            /\ result = NoResult
            /\ Failed(subs) = {Len(subs)}
            /\ captures = Len(subs))
    /\ [][Failed(subs') # {} =>
            /\ captures' = captures
            /\ pollSleeps' = pollSleeps
            /\ onceSleeps' = onceSleeps
            /\ Len(subs') = Len(subs)]_vars

C8_Witness ==
    /\ pc = "failed"
    /\ err = "transport"
    /\ phase = "poll"
    /\ Len(subs) = 2
    /\ subs[2].resp = "error"

\* C9: at most one submission of a checkpoint is in flight at any time, and
\* neither a capture nor a submission is started while one is in flight.
C9_OneInFlight ==
    /\ [](/\ Cardinality(Pending(subs)) <= 1
          /\ Pending(subs) \subseteq {Len(subs)}
          /\ Pending(subs) # {} <=> pc = "await")
    /\ [][(captures' > captures \/ Len(subs') > Len(subs)) =>
            Pending(subs) = {}]_vars

C9_Witness ==
    /\ pc = "await"
    /\ Len(subs) >= 2
    /\ Pending(subs) = {Len(subs)}
    /\ subs[Len(subs) - 1].resp = "false"

SoftCount(q) == Cardinality({i \in 1..Len(q) : q[i].soft})

\* C10: a poll iteration is entered only with a measured elapsed time below
\* the timeout; once the measured elapsed time has reached the timeout the
\* checkpoint takes no further poll sleep and starts no further soft
\* attempt; and a soft attempt that is in flight while the timeout passes is
\* answered and its answer used: true ends the checkpoint with as_expected
\* = true, false leads to the final attempt.
C10_NoPollAfterTimeout ==
    /\ [](pc = "poll_sleep" => (retry >= 0 /\ retry < retry_timeout))
    /\ [][(pc \notin Terminal /\ retry >= 0 /\ retry >= retry_timeout) =>
            /\ SoftCount(subs') = SoftCount(subs)
            /\ pollSleeps' = pollSleeps
            /\ pc' # "poll_sleep"]_vars
    /\ [][(pc = "await" /\ phase \in {"first", "poll"}
             /\ now' - start >= retry_timeout) =>
            /\ Len(subs') = Len(subs)
            /\ Last(subs').resp \in Responses
            /\ Last(subs').resp = "true" =>
                  (pc' = "done" /\ result'.as_expected = "true")
            /\ Last(subs').resp = "false" =>
                  (pc' = "prepare" /\ phase' = "last"
                     /\ retry' = now' - start)]_vars

C10_Witness ==
    /\ RetryMode
    /\ pc = "done"
    /\ phase = "poll"
    /\ now - start > retry_timeout
    /\ Len(subs) >= 2
    /\ result.as_expected = "true"

\* ============================================= _get_dynamic_regions (115-134)
\* at most MaxRegions descriptors in each of the two configured lists
MaxRegions == 2

\* region descriptors: what get_region(driver, eyes_screenshot) does for
\* each, a Region or the OutOfBoundsError
Wrappers ==
    { [name |-> "header", resolves |-> "r_header"],
      [name |-> "footer", resolves |-> "r_footer"],
      [name |-> "gone",   resolves |-> "OutOfBoundsError"] }

WrapperLists == UNION {[1..n -> Wrappers] : n \in 0..MaxRegions}

Targets ==
    {NoTarget} \cup
    { [present |-> TRUE, ignore_regions |-> i, floating_regions |-> f] :
        i \in WrapperLists, f \in WrapperLists }

\* region_wrapper.get_region(driver, eyes_screenshot), lines 123 and 129
GetRegion(w) == w.resolves

RECURSIVE ResolveAll_StopAtFirst(_, _)
\* variant: the first out-of-bounds descriptor ends the loop
ResolveAll_StopAtFirst(ws, acc) ==
    IF ws = <<>> THEN acc
    ELSE IF GetRegion(Head(ws)) = "OutOfBoundsError"
         THEN acc
         ELSE ResolveAll_StopAtFirst(Tail(ws), Append(acc, GetRegion(Head(ws))))

RECURSIVE ResolveAll(_, _)
\* the for loops of lines 121-126 and 127-133: append the region, or log
\* the OutOfBoundsError and go on with the next descriptor
ResolveAll(ws, acc) ==
    IF ws = <<>> THEN acc
    ELSE IF GetRegion(Head(ws)) = "OutOfBoundsError"
         THEN ResolveAll(Tail(ws), acc)
         ELSE ResolveAll(Tail(ws), Append(acc, GetRegion(Head(ws))))

\* _get_dynamic_regions(target, driver, eyes_screenshot)
DynamicRegions(target) ==
    IF target.present
    THEN [ignore   |-> ResolveAll(target.ignore_regions, <<>>),
          floating |-> ResolveAll(target.floating_regions, <<>>)]
    ELSE [ignore |-> <<>>, floating |-> <<>>]

RInit ==
    /\ r_pc = "called"
    /\ r_target \in Targets
    /\ r_regions = NoRegions

\* the call runs to its return statement, line 134
GetDynamicRegions ==
    /\ r_pc = "called"
    /\ r_regions' = DynamicRegions(r_target)
    /\ r_pc' = "returned"
    /\ UNCHANGED r_target

\* the next attempt calls it again with another target
NextTarget(t) ==
    /\ r_pc = "returned"
    /\ r_target' = t
    /\ r_regions' = NoRegions
    /\ r_pc' = "called"

RNext ==
    \/ GetDynamicRegions /\ UNCHANGED <<vars, wvars, fvars, cvars>>
    \/ \E t \in Targets : NextTarget(t) /\ UNCHANGED <<vars, wvars, fvars, cvars>>

RegionsInit == MatchIdle /\ RInit /\ WIdle /\ FIdle /\ CIdle

SpecRegions == RegionsInit /\ [][RNext]_<<vars, auxVars>>

InBounds(ws) == SelectSeq(ws, LAMBDA w : w.resolves # "OutOfBoundsError")

\* C11: the Ignore list, and likewise the Floating list, holds exactly the
\* resolutions of the configured descriptors that are in bounds, in the
\* configured order; the out-of-bounds ones are absent, the call returns,
\* and with no target both lists are empty.
C11_OutOfBoundsDropped ==
    r_pc = "returned" =>
        /\ r_target.present =>
            /\ Len(r_regions.ignore) = Len(InBounds(r_target.ignore_regions))
            /\ \A i \in 1..Len(r_regions.ignore) :
                 r_regions.ignore[i] = InBounds(r_target.ignore_regions)[i].resolves
            /\ Len(r_regions.floating) = Len(InBounds(r_target.floating_regions))
            /\ \A i \in 1..Len(r_regions.floating) :
                 r_regions.floating[i] = InBounds(r_target.floating_regions)[i].resolves
        /\ \A i \in 1..Len(r_regions.ignore) : r_regions.ignore[i] # "OutOfBoundsError"
        /\ \A i \in 1..Len(r_regions.floating) : r_regions.floating[i] # "OutOfBoundsError"
        /\ ~r_target.present => r_regions = NoRegions

C11_Witness ==
    /\ r_pc = "returned"
    /\ r_target.present
    /\ Len(r_target.ignore_regions) = 2
    /\ r_target.ignore_regions[1].name = "gone"
    /\ r_target.ignore_regions[2].name = "footer"
    /\ r_regions.ignore = <<"r_footer">>

\* ========================================= _create_match_data_bytes (69-113)
\* the JSON metadata (beside three long ones) has at most MaxJsonLen bytes
MaxJsonLen == 2
\* the image has at most MaxImageLen bytes
MaxImageLen == 2

\* UTF-8 bytes of general_utils.to_json(match_data), line 109: short ones,
\* and long ones whose length does not fit one byte
JsonBytes ==
    UNION {[1..n -> {34, 123, 125}] : n \in 0..MaxJsonLen}
    \cup {[i \in 1..n |-> 34] : n \in {255, 256, 258}}

\* screenshot.get_bytes(), line 111
ImageBytes == UNION {[1..n -> {0, 137, 255}] : n \in 0..MaxImageLen}

\* variant: the length is packed least significant byte first ("<L")
Pack_LittleEndian(n) ==
    << n % 256, (n \div 256) % 256, (n \div 65536) % 256,
       (n \div 16777216) % 256 >>

\* struct.pack(">L", n), line 110: four bytes, most significant first
Pack(n) ==
    << (n \div 16777216) % 256, (n \div 65536) % 256, (n \div 256) % 256,
       n % 256 >>

\* lines 109-113: body = size bytes + JSON bytes + screenshot bytes
MatchDataBytes(json, image) == Pack(Len(json)) \o json \o image

WInit ==
    /\ w_pc = "called"
    /\ w_json \in JsonBytes
    /\ w_image \in ImageBytes
    /\ w_body = <<>>

\* the call runs to its return statement, line 113
CreateMatchDataBytes ==
    /\ w_pc = "called"
    /\ w_body' = MatchDataBytes(w_json, w_image)
    /\ w_pc' = "framed"
    /\ UNCHANGED <<w_json, w_image>>

\* the next attempt frames another request
NextRequest(json, image) ==
    /\ w_pc = "framed"
    /\ w_json' = json
    /\ w_image' = image
    /\ w_body' = <<>>
    /\ w_pc' = "called"

WNext ==
    \/ CreateMatchDataBytes /\ UNCHANGED <<vars, rvars, fvars, cvars>>
    \/ \E j \in JsonBytes, i \in ImageBytes :
          NextRequest(j, i) /\ UNCHANGED <<vars, rvars, fvars, cvars>>

WireInit == MatchIdle /\ RIdle /\ WInit /\ FIdle /\ CIdle

SpecWire == WireInit /\ [][WNext]_<<vars, auxVars>>

\* the unsigned integer four bytes stand for, most significant first
\* (-1 for the values of 2^31 and more, which no length checked here has)
BigEndian(b) ==
    IF b[1] >= 128 THEN -1
    ELSE ((b[1] * 256 + b[2]) * 256 + b[3]) * 256 + b[4]

\* C12: the body starts with four bytes that read, most significant first,
\* as the number N of JSON bytes; the N bytes after them are the JSON bytes,
\* and what follows offset 4 + N is the image, nothing more.
C12_WireRoundTrip ==
    w_pc = "framed" =>
        /\ Len(w_body) = 4 + Len(w_json) + Len(w_image)
        /\ \A i \in 1..4 : w_body[i] \in 0..255
        /\ BigEndian(SubSeq(w_body, 1, 4)) = Len(w_json)
        /\ LET N == BigEndian(SubSeq(w_body, 1, 4))
           IN  /\ SubSeq(w_body, 5, 4 + N) = w_json
               /\ SubSeq(w_body, 5 + N, Len(w_body)) = w_image

C12_Witness ==
    /\ w_pc = "framed"
    /\ Len(w_json) = 258
    /\ SubSeq(w_body, 1, 4) = <<0, 0, 1, 2>>
    /\ w_image = <<137, 255>>

\* ============================================================== frames.py
\* a chain followed alone holds at most MaxDepth frames
MaxDepth == 3
\* each of two chains followed together holds at most MaxCloneDepth frames
MaxCloneDepth == 2

\* Frame.__slots__, line 18
FrameSlots ==
    {"reference", "location", "outer_size", "inner_size",
     "original_location", "_scroll_root_element", "_original_overflow"}

\* Frame.__init__, lines 21-39
Frame(reference, location, outer_size, inner_size, original_location) ==
    [alloc |-> TRUE, reference |-> reference, location |-> location,
     outer_size |-> outer_size, inner_size |-> inner_size,
     original_location |-> original_location]

\* the frames the driver enters: arguments of Frame(...)
FrameArgs ==
    { <<"iframe_a", <<10, 20>>, <<300, 200>>, <<296, 196>>, <<0, 50>>>>,
      <<"iframe_b", <<5, 5>>,   <<200, 100>>, <<190, 90>>,  <<7, 0>>>>,
      <<"iframe_c", <<0, 3>>,   <<50, 40>>,   <<48, 38>>,   <<0, 0>>>> }

\* the one frame entered while two chains are followed
CloneFrameArgs ==
    { <<"iframe_a", <<10, 20>>, <<300, 200>>, <<296, 196>>, <<0, 50>>>> }

\* values frame.location is set to from outside
Locations == {<<10, 20>>, <<5, 5>>}

Range(q) == {q[i] : i \in 1..Len(q)}

Free(h) == {i \in ObjIds : ~h[i].alloc}

\* a Frame no chain refers to any more is dropped
Collect(h, ch) ==
    [i \in ObjIds |->
        IF i \in Range(ch["live"]) \cup Range(ch["other"]) THEN h[i]
        ELSE FreeFrame]

\* getattr(frame, name) on an object with __slots__ and no __dict__
HasAttr(name) == name \in FrameSlots

\* Point.create_top_left()
CreateTopLeft == <<0, 0>>

\* Point.offset_by_location(location)
OffsetByLocation(pt, l) == <<pt[1] + l[1], pt[2] + l[2]>>

\* variant: the frames are put in front
PushOnto_Front(q, f) == <<f>> \o q

\* self._frames.append(frame), line 84
PushOnto(q, f) == Append(q, f)

\* variant: the first element is taken, as the name "peek" of a queue would
Top_Outermost(q) == 1

\* the index of self._frames.pop() (line 88) and of self[-1] (line 79)
Top(q) == Len(q)

\* variant: the chain is never found empty
NoFrames_Never(q) == FALSE

\* len(self) == 0, line 111
NoFrames(q) == Len(q) = 0

RECURSIVE OffsetLoop_Overwrite(_, _, _, _)
\* variant: location = frame.location in place of the accumulation
OffsetLoop_Overwrite(h, q, i, location) ==
    IF i > Len(q) THEN location
    ELSE OffsetLoop_Overwrite(h, q, i + 1, h[q[i]].location)

RECURSIVE OffsetLoop(_, _, _, _)
\* the for loop of lines 94-95, from the i-th frame on
OffsetLoop(h, q, i, location) ==
    IF i > Len(q) THEN location
    ELSE OffsetLoop(h, q, i + 1, OffsetByLocation(location, h[q[i]].location))

\* variant: the size of the frame element, borders included
SizeOfTop_Outer(h, q) == h[q[Top(q)]].outer_size

\* self.peek.inner_size, line 101
SizeOfTop(h, q) == h[q[Top(q)]].inner_size

\* variant: set(self) == set(other) replaced by list equality
EqChains_Ordered(q1, q2) == q1 = q2

\* FrameChain.__eq__, line 67: Frame defines neither __eq__ nor __hash__,
\* so the sets hold the frames by identity
EqChains(q1, q2) == Range(q1) = Range(q2)

\* the n-th smallest free cell
NthFree(free, n) ==
    CHOOSE f \in free : Cardinality({g \in free : g <= f}) = n

\* variant: list(frame_chain._frames), the Frame objects are shared
CopyMap_Shallow(q) == [i \in Range(q) |-> i]

\* copy.deepcopy(frame_chain._frames), line 52: each Frame of the list gets
\* one new object, a Frame listed twice one new object listed twice
CopyMap(q) ==
    [i \in Range(q) |->
        NthFree(ObjIds \ Range(q), Cardinality({j \in Range(q) : j <= i}))]

Ret(op, c) == [NoRet EXCEPT !.op = op, !.on = c]

\* chain.push(Frame(...)): the driver enters a frame
PushNew(c, a) ==
    /\ Free(f_heap) # {}
    /\ LET id == NthFree(Free(f_heap), 1)
       IN  /\ f_heap' = [f_heap EXCEPT ![id] = Frame(a[1], a[2], a[3], a[4], a[5])]
           /\ f_chains' = [f_chains EXCEPT ![c] = PushOnto(@, id)]
           /\ f_ret' = [Ret("push", c) EXCEPT !.frame = id]

\* chain.push(frame) with a Frame another chain holds, lines 81-84
PushExisting(c, id) ==
    /\ f_heap[id].alloc
    /\ f_chains' = [f_chains EXCEPT ![c] = PushOnto(@, id)]
    /\ f_ret' = [Ret("push", c) EXCEPT !.frame = id]
    /\ UNCHANGED f_heap

\* FrameChain.pop, lines 86-88; list.pop() of an empty list: IndexError
Pop(c) ==
    IF Len(f_chains[c]) = 0
    THEN /\ f_ret' = [Ret("pop", c) EXCEPT !.exc = "IndexError"]
         /\ UNCHANGED <<f_heap, f_chains>>
    ELSE LET q == f_chains[c]
             k == Top(q)
         IN  /\ f_chains' = [f_chains EXCEPT
                               ![c] = SubSeq(q, 1, k - 1) \o SubSeq(q, k + 1, Len(q))]
             /\ f_ret' = [Ret("pop", c) EXCEPT !.frame = q[k]]
             /\ f_heap' = Collect(f_heap, f_chains')

\* FrameChain.clear, lines 69-70
Clear(c) ==
    /\ f_chains' = [f_chains EXCEPT ![c] = <<>>]
    /\ f_ret' = Ret("clear", c)
    /\ f_heap' = Collect(f_heap, f_chains')

\* variant: the sum is accumulated in the location of the outermost frame
CurrentFrameOffset_InPlace(c) ==
    LET q == f_chains[c]
        total == OffsetLoop(f_heap, q, 1, CreateTopLeft)
    IN  /\ f_ret' = [Ret("current_frame_offset", c) EXCEPT !.point = total]
        /\ f_heap' = IF q = <<>> THEN f_heap
                      ELSE [f_heap EXCEPT ![q[1]].location = total]
        /\ UNCHANGED f_chains

\* FrameChain.current_frame_offset, lines 90-96
CurrentFrameOffset(c) ==
    /\ f_ret' = [Ret("current_frame_offset", c) EXCEPT
                   !.point = OffsetLoop(f_heap, f_chains[c], 1, CreateTopLeft)]
    /\ UNCHANGED <<f_heap, f_chains>>

\* FrameChain.current_frame_size, lines 98-101; self[-1] of an empty list:
\* IndexError
CurrentFrameSize(c) ==
    /\ f_ret' = IF Len(f_chains[c]) = 0
                THEN [Ret("current_frame_size", c) EXCEPT !.exc = "IndexError"]
                ELSE [Ret("current_frame_size", c) EXCEPT
                        !.point = SizeOfTop(f_heap, f_chains[c])]
    /\ UNCHANGED <<f_heap, f_chains>>

\* FrameChain.default_content_scroll_position, lines 108-114: line 113 reads
\* self[0].parent_scroll_position, which is not among Frame.__slots__
DefaultContentScrollPosition(c) ==
    /\ f_ret' =
         IF NoFrames(f_chains[c])
         THEN [Ret("default_content_scroll_position", c) EXCEPT !.exc = "EyesError"]
         ELSE IF Len(f_chains[c]) = 0
         THEN [Ret("default_content_scroll_position", c) EXCEPT !.exc = "IndexError"]
         ELSE IF ~HasAttr("parent_scroll_position")
         THEN [Ret("default_content_scroll_position", c) EXCEPT !.exc = "AttributeError"]
         ELSE [Ret("default_content_scroll_position", c) EXCEPT
                 !.point = f_heap[f_chains[c][1]].original_location]
    /\ UNCHANGED <<f_heap, f_chains>>

\* other = live.clone(): FrameChain.clone and __init__, lines 48-52, 116-118
Clone ==
    /\ 2 * Cardinality(Range(f_chains["live"])) <= MaxObjs
    /\ LET q == f_chains["live"]
           m == CopyMap(q)
           kept == Collect(f_heap, [f_chains EXCEPT !["other"] = <<>>])
       IN  /\ f_chains' = [f_chains EXCEPT !["other"] = [i \in 1..Len(q) |-> m[q[i]]]]
           /\ f_heap' = [i \in ObjIds |->
                           IF \E j \in Range(q) : m[j] = i /\ j # i
                           THEN f_heap[CHOOSE j \in Range(q) : m[j] = i]
                           ELSE kept[i]]
           /\ f_ret' = Ret("clone", "live")

\* frame.location = l, from outside the chain
SetLocation(id, l) ==
    /\ f_heap[id].alloc
    /\ f_heap[id].location # l
    /\ f_heap' = [f_heap EXCEPT ![id].location = l]
    /\ f_ret' = [Ret("setattr", IF id \in Range(f_chains["live"])
                               THEN "live" ELSE "other")
                   EXCEPT !.frame = id]
    /\ UNCHANGED f_chains

\* live == other
Eq ==
    /\ f_ret' = [Ret("eq", "live") EXCEPT
                   !.flag = EqChains(f_chains["live"], f_chains["other"])]
    /\ UNCHANGED <<f_heap, f_chains>>

\* ---- one chain, entered and left by the driver
FNext ==
    \/ \E a \in FrameArgs :
          /\ Len(f_chains["live"]) < MaxDepth
          /\ PushNew("live", a)
          /\ UNCHANGED <<vars, rvars, wvars, cvars>>
    \/ Pop("live") /\ UNCHANGED <<vars, rvars, wvars, cvars>>
    \/ Clear("live") /\ UNCHANGED <<vars, rvars, wvars, cvars>>
    \/ CurrentFrameOffset("live") /\ UNCHANGED <<vars, rvars, wvars, cvars>>
    \/ CurrentFrameSize("live") /\ UNCHANGED <<vars, rvars, wvars, cvars>>
    \/ DefaultContentScrollPosition("live") /\ UNCHANGED <<vars, rvars, wvars, cvars>>

FramesInit == MatchIdle /\ RIdle /\ WIdle /\ FIdle /\ CIdle

SpecFrames == FramesInit /\ [][FNext]_<<vars, auxVars>>

\* ---- the live chain and another one: a clone, or a chain built apart
CNext ==
    \/ \E c \in ChainNames, a \in CloneFrameArgs :
          /\ Len(f_chains[c]) < MaxCloneDepth
          /\ PushNew(c, a)
          /\ UNCHANGED <<vars, rvars, wvars, cvars>>
    \/ \E c \in ChainNames, id \in ObjIds :
          /\ Len(f_chains[c]) < MaxCloneDepth
          /\ PushExisting(c, id)
          /\ UNCHANGED <<vars, rvars, wvars, cvars>>
    \/ \E c \in ChainNames : Pop(c) /\ UNCHANGED <<vars, rvars, wvars, cvars>>
    \/ \E c \in ChainNames : Clear(c) /\ UNCHANGED <<vars, rvars, wvars, cvars>>
    \/ Clone /\ UNCHANGED <<vars, rvars, wvars, cvars>>
    \/ \E id \in ObjIds, l \in Locations :
          SetLocation(id, l) /\ UNCHANGED <<vars, rvars, wvars, cvars>>
    \/ Eq /\ UNCHANGED <<vars, rvars, wvars, cvars>>

SpecClone == FramesInit /\ [][CNext]_<<vars, auxVars>>

\* ---- the live chain with its read views, cloned now and then, while the
\* fields of its frames are set from outside
VNext ==
    \/ \E a \in FrameArgs :
          /\ Len(f_chains["live"]) < MaxDepth
          /\ PushNew("live", a)
          /\ UNCHANGED <<vars, rvars, wvars, cvars>>
    \/ Pop("live") /\ UNCHANGED <<vars, rvars, wvars, cvars>>
    \/ CurrentFrameOffset("live") /\ UNCHANGED <<vars, rvars, wvars, cvars>>
    \/ CurrentFrameSize("live") /\ UNCHANGED <<vars, rvars, wvars, cvars>>
    \/ DefaultContentScrollPosition("live") /\ UNCHANGED <<vars, rvars, wvars, cvars>>
    \/ Clone /\ UNCHANGED <<vars, rvars, wvars, cvars>>
    \/ \E id \in ObjIds, l \in Locations :
          SetLocation(id, l) /\ UNCHANGED <<vars, rvars, wvars, cvars>>

SpecViews == FramesInit /\ [][VNext]_<<vars, auxVars>>

\* ------------------------------------------------- claims on the frame chain
LocationsOf(c) == [i \in 1..Len(f_chains[c]) |-> f_heap[f_chains[c][i]].location]

RECURSIVE Total(_)
\* component-wise sum of a sequence of points
Total(pts) ==
    IF pts = <<>> THEN <<0, 0>>
    ELSE LET rest == Total(Tail(pts))
         IN  <<Head(pts)[1] + rest[1], Head(pts)[2] + rest[2]>>

\* C13: current_frame_offset is the component-wise sum of the locations of
\* the frames now in the chain, (0,0) for the empty chain and (15,28) for
\* frames located at (10,20), (5,5), (0,3).
C13_OffsetIsSum ==
    f_ret.op = "current_frame_offset" =>
        /\ f_ret.exc = "none"
        /\ f_ret.point = Total(LocationsOf(f_ret.on))
        /\ f_chains[f_ret.on] = <<>> => f_ret.point = <<0, 0>>
        /\ LocationsOf(f_ret.on) = << <<10, 20>>, <<5, 5>>, <<0, 3>> >>
              => f_ret.point = <<15, 28>>

C13_Witness ==
    /\ f_ret.op = "current_frame_offset"
    /\ LocationsOf("live") = << <<10, 20>>, <<5, 5>>, <<0, 3>> >>
    /\ f_ret.point = <<15, 28>>

\* C14: on a non-empty chain default_content_scroll_position returns the
\* original_location of the outermost frame.
C14_OutermostOriginalLocation ==
    (f_ret.op = "default_content_scroll_position"
       /\ Len(f_chains[f_ret.on]) > 0) =>
        /\ f_ret.exc = "none"
        /\ f_ret.point = f_heap[f_chains[f_ret.on][1]].original_location

\* C15: default_content_scroll_position on an empty chain fails with the
\* empty-chain error (EyesError), returns no value, and leaves the chain
\* empty.
C15_EmptyChainError ==
    /\ []((f_ret.op = "default_content_scroll_position"
             /\ f_chains[f_ret.on] = <<>>) =>
            (f_ret.exc = "EyesError" /\ f_ret.point = NoRet.point))
    /\ [][(f_ret'.op = "default_content_scroll_position"
             /\ f_chains[f_ret'.on] = <<>>) =>
            (f_ret'.exc = "EyesError" /\ f_chains' = f_chains
               /\ f_heap' = f_heap)]_fvars

C15_Witness ==
    /\ f_ret.op = "default_content_scroll_position"
    /\ f_ret.exc = "EyesError"
    /\ f_chains["live"] = <<>>

\* C16: push puts the frame at the end of the chain, the outermost frame
\* staying first; pop takes the last frame away and returns it, so that a
\* pop right after a push gives that frame back and the chain it was pushed
\* on; pop on an empty chain fails and leaves the chain empty.
C16_StackDiscipline ==
    /\ [][f_ret'.op = "push" =>
            f_chains' = [f_chains EXCEPT ![f_ret'.on] = Append(@, f_ret'.frame)]]_fvars
    /\ [][f_ret'.op = "pop" =>
            LET q == f_chains[f_ret'.on]
            IN  IF q = <<>>
                THEN f_ret'.exc = "IndexError" /\ f_chains' = f_chains
                ELSE /\ f_ret'.exc = "none"
                     /\ f_ret'.frame = q[Len(q)]
                     /\ f_chains' = [f_chains EXCEPT
                                       ![f_ret'.on] = SubSeq(q, 1, Len(q) - 1)]]_fvars
    /\ [][(f_ret.op = "push" /\ f_ret'.op = "pop" /\ f_ret'.on = f_ret.on) =>
            /\ f_ret'.frame = f_ret.frame
            /\ Append(f_chains'[f_ret.on], f_ret.frame) = f_chains[f_ret.on]]_fvars

C16_Witness ==
    /\ f_ret.op = "pop"
    /\ f_ret.exc = "none"
    /\ f_ret.frame = 3
    /\ f_chains["live"] = <<1, 2>>

\* C17: on a non-empty chain current_frame_size is the inner_size of the
\* last frame of the chain, not its outer_size.
C17_SizeIsInnerOfTop ==
    (f_ret.op = "current_frame_size" /\ f_chains[f_ret.on] # <<>>) =>
        LET q == f_chains[f_ret.on]
        IN  /\ f_ret.exc = "none"
            /\ f_ret.point = f_heap[q[Len(q)]].inner_size
            /\ f_ret.point # f_heap[q[Len(q)]].outer_size

C17_Witness ==
    /\ f_ret.op = "current_frame_size"
    /\ Len(f_chains["live"]) = 2
    /\ f_heap[f_chains["live"][1]].reference = "iframe_a"
    /\ f_ret.point = <<190, 90>>

ValuesOf(h, q) == [i \in 1..Len(q) |-> h[q[i]]]

Disjoint(ch) == Range(ch["live"]) \cap Range(ch["other"]) = {}

C19_EqIsSetEquality ==
    f_ret.op = "eq" =>
        LET p == f_chains["live"]
            q == f_chains["other"]
        IN  f_ret.flag <=>
              /\ \A i \in 1..Len(p) : \E j \in 1..Len(q) : p[i] = q[j]
              /\ \A j \in 1..Len(q) : \E i \in 1..Len(p) : q[j] = p[i]

C19_Witness ==
    /\ f_ret.op = "eq"
    /\ f_ret.flag
    /\ Len(f_chains["live"]) = 2
    /\ f_chains["live"][1] # f_chains["live"][2]
    /\ f_chains["other"] = <<f_chains["live"][2], f_chains["live"][1]>>

\* ------------------------------------------- region and window checkpoints
\* a checkpoint of kind k goes through the retry state machine: it ends
\* with a result, the configuration error or the comparator's error, and in
\* retry mode its first submission is made and is soft
RunsStateMachine(k) ==
    kind = k =>
        /\ err \in {"none", "config", "transport"}
        /\ (RetryMode /\ pc \in {"done", "failed"}) =>
              (Len(subs) >= 1 /\ subs[1].soft)

\* what C20 compares the region checkpoint with: the window checkpoint
\* does go through the state machine
C20_WindowBaseline == RunsStateMachine("window")

\* C20: a region checkpoint runs the retry state machine of a window
\* checkpoint: for the same timeout, run_once flag and comparator answers it
\* makes the same submissions with the same soft/hard flags and returns the
\* same as_expected.
C20_RegionAsWindow == RunsStateMachine("region")

\* ------------------------------------------ timing of a checkpoint, C21..C30
\* the elapsed time has just been measured after the first attempt
FirstMeasured ==
    /\ RetryMode
    /\ Len(subs) = 1
    /\ pc = "poll_sleep" \/ (pc = "prepare" /\ phase = "last")

\* C21 as stated: in retry mode the timer is started just after the first
\* submission has been answered, so that the elapsed time measured right
\* after the first answer is zero: it counts neither the first capture nor
\* the first round-trip.
C21_Original == FirstMeasured => retry = 0

\* C21 amended: in retry mode the timer is started right after the first
\* capture and before the first request is sent, and is not restarted: every
\* elapsed time compared with the timeout is the time since the end of the
\* first capture, so it counts the first round-trip to the comparator and
\* does not count the first capture.
C21_TimerAfterFirstCapture ==
    /\ [](RetryMode =>
            /\ (phase = "first" /\ pc \in {"submit", "await"}) => start = now
            /\ (pc = "poll_sleep" \/ (pc = "prepare" /\ phase = "last")) =>
                  retry = now - start)
    /\ [][(RetryMode /\ captures >= 1 /\ pc \notin Terminal) =>
            start' = start]_vars

C21_Witness ==
    /\ FirstMeasured
    /\ pc = "poll_sleep"
    /\ start = 250
    /\ now = 750
    /\ retry = 500

\* C22: a call with a negative retry_timeout is never rejected with the
\* configuration error; its effective timeout is the default given at
\* construction, whatever it is (even below 60 ms), and a default of 0
\* makes it a single-shot checkpoint.
C22_NegativeUsesDefault ==
    (pc # "idle" /\ explicit < 0) =>
        /\ pc # "rejected"
        /\ err # "config"
        /\ retry_timeout = default_retry_timeout
        /\ default_retry_timeout = 0 => (SingleShotMode /\ phase = "once")
        /\ (default_retry_timeout # 0 /\ ~run_once) =>
              (RetryMode /\ phase # "once")

C22_Witness ==
    /\ explicit = -1
    /\ default_retry_timeout = 30
    /\ retry_timeout = 30
    /\ RetryMode
    /\ pc = "done"
    /\ phase = "last"

\* C23: a single-shot checkpoint sleeps once, for the effective timeout
\* (no time at all when it is 0), before its only capture; it takes no poll
\* sleep, its only submission is hard, and it returns the answer to it.
C23_SingleShotSleepsOnce ==
    SingleShotMode =>
        /\ onceSleeps = (IF pc = "once_sleep" THEN 0 ELSE 1)
        /\ pollSleeps = 0
        /\ pc = "once_sleep" => (captures = 0 /\ now = 0)
        /\ pc = "prepare" => (captures = 0 /\ now = retry_timeout)
        /\ \A i \in 1..Len(subs) : ~subs[i].soft
        /\ pc = "done" =>
            /\ Len(subs) = 1
            /\ result.as_expected = subs[1].resp
            /\ result.screenshot = subs[1].shot

C23_Witness ==
    /\ SingleShotMode
    /\ ~run_once
    /\ retry_timeout = 0
    /\ onceSleeps = 1
    /\ pc = "done"
    /\ result.as_expected = "true"

\* C24: in retry mode every attempt of the polling loop comes after exactly
\* one sleep of 500 ms taken after the answer to the attempt before it, a
\* poll sleep is taken only with a measured elapsed time below the timeout,
\* and neither the first attempt nor the final hard attempt has a poll
\* sleep of its own.
C24_PollSleepPerAttempt ==
    /\ [](RetryMode =>
            /\ phase = "first" => pollSleeps = 0
            /\ phase = "poll" =>
                  pollSleeps = (IF pc = "prepare" THEN captures ELSE captures - 1)
            /\ phase = "last" =>
                  pollSleeps = (IF pc = "prepare" THEN captures - 1 ELSE captures - 2)
            /\ pc = "poll_sleep" => (phase = "poll" /\ retry < retry_timeout))
    /\ [][pollSleeps' > pollSleeps =>
            /\ pollSleeps' = pollSleeps + 1
            /\ now' = now + 500
            /\ Last(subs).resp = "false"
            /\ captures' = captures
            /\ pc' = "prepare"
            /\ phase' = "poll"]_vars

C24_Witness ==
    /\ RetryMode
    /\ pc = "done"
    /\ phase = "last"
    /\ pollSleeps = 2
    /\ captures = 4
    /\ Len(subs) = 4

\* C25: captures and submissions alternate, the k-th submission being
\* built from the k-th capture, and a MatchResult carries the capture of
\* the last submission.
C25_FreshCapturePerSubmission ==
    /\ captures = Len(subs) + (IF pc = "submit" THEN 1 ELSE 0)
    /\ \A i \in 1..Len(subs) : subs[i].shot = i
    /\ pc = "submit" => (data.shot = captures /\ screenshot = captures)
    /\ pc = "done" =>
        /\ result.screenshot = Last(subs).shot
        /\ result.screenshot = captures

C25_Witness ==
    /\ pc = "done"
    /\ phase = "poll"
    /\ Len(subs) = 3
    /\ result.screenshot = 3
    /\ subs[3].shot = 3

\* a checkpoint is under way
Active == pc \notin Terminal \cup {"idle"}

\* C28: a checkpoint under way always comes to an end, with a MatchResult
\* or an error, whatever the comparator answers; the polling loop is
\* bounded: with timeout T it takes at most ceil(T / 500) poll sleeps.
C28_Terminates ==
    /\ Active ~> (pc \in Terminal)
    /\ [](RetryMode => pollSleeps <= CeilDiv(retry_timeout, 500))

C28_Witness ==
    /\ RetryMode
    /\ pc = "done"
    /\ retry_timeout = 1000
    /\ pollSleeps = 2
    /\ AllFalse(subs)
    /\ now = 1000

PollMatched(q) == {i \in 2..Len(q) : q[i].soft /\ q[i].resp = "true"}

\* C30: in retry mode a polling attempt answered true is the last thing
\* the checkpoint does: it returns as_expected = true with the capture of
\* that attempt, and there is no sleep, capture or submission after it and
\* no hard attempt at all.
C30_PollMatchEnds ==
    (RetryMode /\ PollMatched(subs) # {}) =>
        /\ PollMatched(subs) = {Len(subs)}
        /\ pc = "done"
        /\ phase = "poll"
        /\ result.as_expected = "true"
        /\ result.screenshot = Last(subs).shot
        /\ Hard(subs) = {}
        /\ captures = Len(subs)
        /\ pollSleeps = Len(subs) - 1

C30_Witness ==
    /\ RetryMode
    /\ pc = "done"
    /\ Len(subs) = 2
    /\ PollMatched(subs) = {2}
    /\ pollSleeps = 1
    /\ result.as_expected = "true"

\* ------------------------------------------------ effects of the chain, C29
ReadViews ==
    {"current_frame_offset", "current_frame_size",
     "default_content_scroll_position", "clone"}

\* the frames chain c holds before and after the step
Staying(c) == Range(f_chains[c]) \cap Range(f_chains'[c])

\* C29: current_frame_offset, current_frame_size,
\* default_content_scroll_position and clone leave the frames of the chain
\* they are called on, their order and every field of each, as they are;
\* push and pop change which frames the chain holds and no field of a frame
\* that stays in it; a field of a pushed frame changes only when it is set
\* from outside the chain.
C29_ChainOpsLeaveFrames ==
    /\ [][f_ret'.op \in ReadViews =>
            /\ f_chains'[f_ret'.on] = f_chains[f_ret'.on]
            /\ ValuesOf(f_heap', f_chains'[f_ret'.on])
                 = ValuesOf(f_heap, f_chains[f_ret'.on])]_fvars
    /\ [][f_ret'.op \in {"push", "pop"} =>
            \A id \in Staying(f_ret'.on) : f_heap'[id] = f_heap[id]]_fvars
    /\ [][(\E id \in Staying("live") : f_heap'[id] # f_heap[id]) =>
            f_ret'.op = "setattr"]_fvars

C29_Witness ==
    /\ f_ret.op = "current_frame_offset"
    /\ Len(f_chains["live"]) = 2
    /\ f_heap[f_chains["live"][1]].reference = "iframe_a"
    /\ f_heap[f_chains["live"][1]].location = <<5, 5>>
    /\ f_ret.point = <<10, 10>>

\* ================================== _get_screenshot and prepare_action (50-192)
\* wait_before_screenshots goes up to 100 * MaxWaitSteps ms
MaxWaitSteps == 3

Waits == {100 * k : k \in 0..MaxWaitSteps}

\* the arguments match_window, match_region and match_element bind into
\* prepare_action; stitch_content is a parameter of match_element only
CaptureArgs ==
    { a \in [kind : Kinds, force_full_page_screenshot : BOOLEAN,
             wait_before_screenshots : Waits, stitch_content : BOOLEAN] :
        a.kind # "element" => ~a.stitch_content }

\* one request to the driver, the clock or a helper: what, with which
\* waiting time (ms), and scoped to what
Ev(ev, wait, scope) == [ev |-> ev, wait |-> wait, scope |-> scope]

\* variant: the force-full-page flag is not consulted
GetScreenshot_ViewportOnly(force_full_page_screenshot, wait_before_screenshots, element) ==
    IF element
    THEN [events |-> <<Ev("get_stitched_screenshot", wait_before_screenshots, "element")>>,
          source |-> "stitched"]
    ELSE [events |-> <<Ev("sleep", wait_before_screenshots, "none"),
                       Ev("get_screenshot_as_base64", 0, "page")>>,
          source |-> "viewport"]

\* _get_screenshot, lines 50-67; element stands for "an element was given"
GetScreenshot(force_full_page_screenshot, wait_before_screenshots, element) ==
    IF element
    THEN [events |-> <<Ev("get_stitched_screenshot", wait_before_screenshots, "element")>>,
          source |-> "stitched"]
    ELSE IF force_full_page_screenshot
    THEN [events |-> <<Ev("get_full_page_screenshot", wait_before_screenshots, "page")>>,
          source |-> "full_page"]
    ELSE [events |-> <<Ev("sleep", wait_before_screenshots, "none"),
                       Ev("get_screenshot_as_base64", 0, "page")>>,
          source |-> "viewport"]

\* variant: the element is handed to _get_screenshot in both branches
ElementArg_Always(k, stitch_content) == k = "element"

\* lines 182-185: only the stitch_content branch of
\* _prepare_match_data_for_element passes the element; lines 145 and 162
\* pass none
ElementArg(k, stitch_content) == k = "element" /\ stitch_content

\* lines 163 and 186: get_sub_screenshot_by_region /
\* get_sub_screenshot_by_element; no crop for a window or a stitched element
CropOf(k, stitch_content) ==
    IF k = "region" THEN "region"
    ELSE IF k = "element" /\ ~stitch_content THEN "element"
    ELSE "none"

CInit ==
    /\ c_pc = "called"
    /\ c_args \in CaptureArgs
    /\ c_trace = <<>>
    /\ c_shot = NoShot

\* title = self._eyes.get_title(), lines 144, 161, 180
GetTitle ==
    /\ c_pc = "called"
    /\ c_trace' = Append(c_trace, Ev("get_title", 0, "page"))
    /\ c_pc' = "titled"
    /\ UNCHANGED <<c_args, c_shot>>

\* self._screenshot = self._get_screenshot(...) and the crop that follows
\* it, lines 145, 162-163, 182-186
TakeScreenshot ==
    /\ c_pc = "titled"
    /\ LET got == GetScreenshot(c_args.force_full_page_screenshot,
                                c_args.wait_before_screenshots,
                                ElementArg(c_args.kind, c_args.stitch_content))
           crop == CropOf(c_args.kind, c_args.stitch_content)
       IN  /\ c_trace' = c_trace \o got.events \o
                           (IF crop = "none" THEN <<>>
                            ELSE <<Ev("get_sub_screenshot", 0, crop)>>)
           /\ c_shot' = [source |-> got.source, cropped |-> crop]
    /\ c_pc' = "shot"
    /\ UNCHANGED c_args

\* dynamic_regions = _get_dynamic_regions(target, driver, self._screenshot),
\* lines 146, 164, 188
ResolveRegions ==
    /\ c_pc = "shot"
    /\ c_trace' = Append(c_trace, Ev("get_dynamic_regions", 0, c_shot.cropped))
    /\ c_pc' = "resolved"
    /\ UNCHANGED <<c_args, c_shot>>

\* return self._create_match_data_bytes(...), lines 148-150, 166-168, 190-192
BuildRequest ==
    /\ c_pc = "resolved"
    /\ c_trace' = Append(c_trace, Ev("create_match_data_bytes", 0, c_shot.cropped))
    /\ c_pc' = "built"
    /\ UNCHANGED <<c_args, c_shot>>

\* the next attempt: prepare_action is called again; self._screenshot still
\* holds the capture of the attempt before
NextAttempt(a) ==
    /\ c_pc = "built"
    /\ c_args' = a
    /\ c_trace' = <<>>
    /\ c_pc' = "called"
    /\ UNCHANGED c_shot

PNext ==
    \/ GetTitle /\ UNCHANGED <<vars, rvars, wvars, fvars>>
    \/ TakeScreenshot /\ UNCHANGED <<vars, rvars, wvars, fvars>>
    \/ ResolveRegions /\ UNCHANGED <<vars, rvars, wvars, fvars>>
    \/ BuildRequest /\ UNCHANGED <<vars, rvars, wvars, fvars>>
    \/ \E a \in CaptureArgs :
          NextAttempt(a) /\ UNCHANGED <<vars, rvars, wvars, fvars>>

CaptureInit == MatchIdle /\ RIdle /\ WIdle /\ FIdle /\ CInit

SpecCapture == CaptureInit /\ [][PNext]_<<vars, auxVars>>

\* positions in the trace of the requests named in evs
At(evs) == {i \in 1..Len(c_trace) : c_trace[i].ev \in evs}

Captures ==
    At({"get_stitched_screenshot", "get_full_page_screenshot",
        "get_screenshot_as_base64"})

\* the attempt's one capture is at position i: a full-page composite when
\* the flag is set and the engine takes no sleep of its own, else the settle
\* delay followed by one viewport capture
WindowCapture(i) ==
    IF c_args.force_full_page_screenshot
    THEN /\ c_trace[i].ev = "get_full_page_screenshot"
         /\ At({"sleep"}) = {}
         /\ c_shot.source = "full_page"
    ELSE /\ c_trace[i].ev = "get_screenshot_as_base64"
         /\ At({"sleep"}) = {i - 1}
         /\ c_trace[i - 1].wait = c_args.wait_before_screenshots
         /\ c_shot.source = "viewport"

\* C26: a window or region attempt takes exactly one capture: a full-page
\* composite when force-full-page is set, without a sleep of the engine's
\* own, and otherwise one viewport capture right after a sleep of the
\* settle delay; a region attempt crops it to the region right after the
\* capture, before the regions are resolved and the request is framed, and
\* a window attempt crops nothing.
C26_WindowRegionCapture ==
    (c_pc = "built" /\ c_args.kind \in {"window", "region"}) =>
        /\ Cardinality(Captures) = 1
        /\ \A i \in Captures :
            /\ WindowCapture(i)
            /\ IF c_args.kind = "region"
               THEN /\ At({"get_sub_screenshot"}) = {i + 1}
                    /\ c_trace[i + 1].scope = "region"
                    /\ c_shot.cropped = "region"
                    /\ At({"get_dynamic_regions"}) = {i + 2}
                    /\ At({"create_match_data_bytes"}) = {i + 3}
               ELSE /\ At({"get_sub_screenshot"}) = {}
                    /\ c_shot.cropped = "none"
                    /\ At({"get_dynamic_regions"}) = {i + 1}
                    /\ At({"create_match_data_bytes"}) = {i + 2}

C26_Witness ==
    /\ c_pc = "built"
    /\ c_args.kind = "region"
    /\ ~c_args.force_full_page_screenshot
    /\ c_args.wait_before_screenshots = 200
    /\ Len(c_trace) = 6
    /\ c_trace[2] = Ev("sleep", 200, "none")
    /\ c_trace[4] = Ev("get_sub_screenshot", 0, "region")

\* C27 as stated: an element attempt, whatever force-full-page is, takes a
\* stitched composite of the element when stitch content is requested and
\* otherwise a viewport capture cropped to the element.
C27_Original ==
    (c_pc = "built" /\ c_args.kind = "element") =>
        IF c_args.stitch_content
        THEN c_shot = [source |-> "stitched", cropped |-> "none"]
        ELSE c_shot = [source |-> "viewport", cropped |-> "element"]

\* C27 amended: an element attempt with stitch content requested takes one
\* stitched composite scoped to the element, whatever force-full-page is,
\* and crops nothing; without stitch content it takes the capture of a
\* window attempt (a full-page composite when force-full-page is set, else
\* the settle delay and one viewport capture) and crops it to the element's
\* bounding box.
C27_ElementCapture ==
    (c_pc = "built" /\ c_args.kind = "element") =>
        /\ Cardinality(Captures) = 1
        /\ \A i \in Captures :
            IF c_args.stitch_content
            THEN /\ c_trace[i] = Ev("get_stitched_screenshot",
                                    c_args.wait_before_screenshots, "element")
                 /\ At({"sleep", "get_sub_screenshot"}) = {}
                 /\ c_shot = [source |-> "stitched", cropped |-> "none"]
            ELSE /\ WindowCapture(i)
                 /\ At({"get_sub_screenshot"}) = {i + 1}
                 /\ c_trace[i + 1].scope = "element"
                 /\ c_shot.cropped = "element"

C27_Witness ==
    /\ c_pc = "built"
    /\ c_args.kind = "element"
    /\ ~c_args.stitch_content
    /\ c_args.force_full_page_screenshot
    /\ c_shot = [source |-> "full_page", cropped |-> "element"]

\* ------------------------------------------------- a clone and its original
\* C31: a comparison made right after clone(), with nothing done to either
\* chain in between, finds the clone equal to the chain it was cloned from,
\* whatever the depth of the chain.
C31_CloneEqualsOriginal ==
    [][(f_ret.op = "clone" /\ f_ret'.op = "eq") => f_ret'.flag]_fvars
====
